---- MODULE Spec2Model ----
(***************************************************************************)
(* The two example notebooks of docs/examples as state machines:           *)
(*   docs/examples/pipeline/query_pipeline_routing.ipynb                   *)
(*     - the RouterComponent pipeline (cells at lines 174-262)             *)
(*     - the conditional-link pipeline (cells at lines 282-554)            *)
(*   docs/examples/data_connectors/SlackDemo.ipynb                         *)
(* The notebooks' own code (module tables, links, select_choice, chains,   *)
(* cell order) is translated from the notebooks.  The library classes they *)
(* call (QueryPipeline, RouterComponent, the selector, the retrievers, the *)
(* synthesizer, the readers) are modelled from the notebooks' prose and    *)
(* recorded outputs.                                                       *)
(***************************************************************************)
EXTENDS Integers, Sequences, FiniteSets, TLC

VARIABLES
    notebook,      \* which notebook the kernel is running
    qp,            \* the pipeline the name qp is bound to: "router" | "links"
    numNodes,      \* number of nodes the two indices hold
    runs,          \* qp.run calls made on the current qp
    status,        \* "idle" | "running" | "done" | "failed"
    query,         \* the string given to qp.run
    queue,         \* modules still to run, in order
    moduleInputs,  \* all_module_inputs: module -> key -> <<>> or <<value>>
    executing,     \* modules (or cells) whose call has started and not returned
    suspended,     \* components blocked in a call to their sub-pipeline
    trace,         \* the calls made in this run, in order: [module, input]
    outputs,       \* module -> <<>> or <<its output in this run>>
    carry,         \* the value a chain hands from one module to the next
    picked,        \* <<>> or <<ind>>: the index the selector picked
    result,        \* <<>> or <<the value qp.run returned>>
    extFailure,    \* <<>> or <<name>>: the external call that failed
    routerRun,     \* <<>> or <<the last finished run of the router pipeline>>
    cell,          \* SlackDemo: position of the next cell to execute
    env,           \* SlackDemo: os.environ["SLACK_BOT_TOKEN"], <<>> when unset
    fetched,       \* SlackDemo: <<>> or <<the reader's call and what it returned>>
    documents,     \* SlackDemo: the name documents, <<>> while unbound
    index,         \* SlackDemo: the name index, <<>> while unbound
    response,      \* SlackDemo: the name response, <<>> while unbound
    displayed      \* SlackDemo: <<>> or <<what display() rendered>>

pipelineVars == <<qp, numNodes, runs, query, queue, moduleInputs, suspended,
                  outputs, carry, picked, result, routerRun>>

slackVars == <<cell, env, fetched, documents, index, response, displayed>>

vars == <<notebook, status, executing, trace, extFailure, pipelineVars, slackVars>>

(***************************************************************************)
(* Bounds of the model.                                                    *)
(***************************************************************************)
MaxQuery == 2
MaxNodes == 3
MaxRuns == 2
MaxReply == 2
MaxMessages == 2

(***************************************************************************)
(* Values.                                                                 *)
(***************************************************************************)
Digits == <<"0", "1", "2", "3", "4", "5", "6", "7", "8", "9">>

RECURSIVE str(_)
str(n) ==
    IF n < 10 THEN Digits[n + 1]
    ELSE str(n \div 10) \o Digits[(n % 10) + 1]

Queries == {"query " \o str(i) : i \in 1..MaxQuery}

LLMReplies == {"assistant: " \o str(i) : i \in 1..MaxReply}

similarity_top_k_three == 2 + 1

similarity_top_k == 2

ExampleNodeCount == 21

NodeCounts == (0..MaxNodes) \cup {ExampleNodeCount}

Nodes == 1..numNodes

Min(a, b) == IF a < b THEN a ELSE b

RECURSIVE Remove(_, _)
Remove(s, x) ==
    IF s = <<>> THEN <<>>
    ELSE IF Head(s) = x THEN Remove(Tail(s), x)
    ELSE <<Head(s)>> \o Remove(Tail(s), x)

SeqToSet(s) == {s[i] : i \in 1..Len(s)}

(***************************************************************************)
(* The selector (LLMSingleSelector): one language-model call that picks    *)
(* one of the choices, or fails.                                           *)
(***************************************************************************)
choices == <<"This tool answers specific questions about the document (not summary questions across the document)",
             "This tool answers summary questions about the document (not specific questions)">>

SelectorOutcomes ==
    {[failed |-> FALSE, ind |-> i] : i \in 0..(Len(choices) - 1)}
        \cup {[failed |-> TRUE, ind |-> 0]}

(***************************************************************************)
(* select_choice(query): the selector wrapped so that it returns both the  *)
(* selected index and the original query.  sel is the outcome of           *)
(* selector.select(choices, query); a failure of the call propagates.      *)
(***************************************************************************)
select_choice_index_off_by_one(q, sel) ==
    [raised |-> sel.failed,
     val |-> [query |-> q, index |-> str(sel.ind + 1)]]

select_choice_fallback(q, sel) ==
    [raised |-> FALSE,
     val |-> [query |-> q, index |-> IF sel.failed THEN "0" ELSE str(sel.ind)]]

select_choice(q, sel) ==
    [raised |-> sel.failed,
     val |-> [query |-> q, index |-> str(sel.ind)]]

(***************************************************************************)
(* The conditional-link pipeline: its modules and its links.               *)
(***************************************************************************)
Modules == <<"input", "selector", "vector_retriever", "summary_retriever", "summarizer">>

condition_fn_vector_as_summary(x) == x.index = "1"

condition_fn_vector_always(x) == TRUE

condition_fn_vector(x) == x.index = "0"

condition_fn_summary_always(x) == TRUE

condition_fn_summary(x) == x.index = "1"

input_fn_vector_index(x) == x.index

input_fn_vector(x) == x.query

input_fn_summary(x) == x.query

Links ==
    << [src |-> "input", dest |-> "selector", fn |-> "none", dest_key |-> "none"],
       [src |-> "selector", dest |-> "vector_retriever", fn |-> "vector", dest_key |-> "none"],
       [src |-> "selector", dest |-> "summary_retriever", fn |-> "summary", dest_key |-> "none"],
       [src |-> "vector_retriever", dest |-> "summarizer", fn |-> "none", dest_key |-> "nodes"],
       [src |-> "summary_retriever", dest |-> "summarizer", fn |-> "none", dest_key |-> "nodes"],
       [src |-> "input", dest |-> "summarizer", fn |-> "none", dest_key |-> "query_str"] >>

Condition(l, out) ==
    CASE l.fn = "vector" -> condition_fn_vector(out)
      [] l.fn = "summary" -> condition_fn_summary(out)
      [] OTHER -> TRUE

InputFn(l, out) ==
    CASE l.fn = "vector" -> input_fn_vector(out)
      [] l.fn = "summary" -> input_fn_summary(out)
      [] OTHER -> out

(***************************************************************************)
(* The pipeline engine (QueryPipeline.run over a graph of modules).        *)
(***************************************************************************)
AllKeys == {"input", "query", "query_str", "nodes"}

\* The input keys a module needs before it can be called.
ReqKeys(m) ==
    CASE m = "input" -> {"input"}
      [] m = "selector" -> {"query"}
      [] m = "vector_retriever" -> {"input"}
      [] m = "summary_retriever" -> {"input"}
      [] m = "summarizer" -> {"query_str", "nodes"}
      [] OTHER -> {}

NoInputs == [k \in AllKeys |-> <<>>]

\* The key a link without dest_key fills: the destination's only input key.
DestKey(l) ==
    IF l.dest_key # "none" THEN l.dest_key
    ELSE CHOOSE k \in ReqKeys(l.dest) : TRUE

\* The modules no link leaves: their output is the run's result.
LeafKeys == {m \in SeqToSet(Modules) : \A i \in 1..Len(Links) : Links[i].src # m}

\* The modules in an order in which every link goes forward.
TopoOrder == Modules

\* What a module's output does to the inputs of the modules it links to and
\* to the queue: a link whose condition holds delivers the output (through
\* its input_fn), a link whose condition fails drops its destination.
RECURSIVE ProcessLinks(_, _, _, _, _)
ProcessLinks(i, m, out, inputs, q) ==
    IF i > Len(Links) THEN [inputs |-> inputs, queue |-> q]
    ELSE LET l == Links[i] IN
         IF l.src # m THEN ProcessLinks(i + 1, m, out, inputs, q)
         ELSE IF Condition(l, out)
              THEN ProcessLinks(i + 1, m, out,
                       [inputs EXCEPT ![l.dest][DestKey(l)] = <<InputFn(l, out)>>], q)
              ELSE ProcessLinks(i + 1, m, out, inputs, Remove(q, l.dest))

HasInputs(m, inputs) == \A k \in ReqKeys(m) : Len(inputs[m][k]) = 1

\* The synchronous run calls one module at a time: the next call is made
\* when the call before it has returned.
CanStartAnyTime == TRUE

CanStart == executing = {}

\* The subsets of S that hold k of its elements.
RECURSIVE KSubsets(_, _)
KSubsets(S, k) ==
    IF k = 0 THEN {{}}
    ELSE UNION {{T \cup {x} : T \in KSubsets({y \in S : y > x}, k - 1)} : x \in S}

\* What a retriever returns: the vector retriever the similarity_top_k most
\* similar nodes (which ones is the embedding's matter), the summary
\* retriever every node of its index.
Retrieved(m) ==
    IF m = "vector_retriever"
    THEN KSubsets(Nodes, Min(similarity_top_k, numNodes))
    ELSE {Nodes}

\* The calls select_choice can make of the selector, each with its result.
SelectorCalls(q) ==
    {[sel |-> s, r |-> select_choice(q, s)] : s \in SelectorOutcomes}

\* The ways a module's call can return: the value, and for the selector the
\* index it picked and whether its language-model call had failed.
Returns(m, in) ==
    CASE m = "input" ->
            {[val |-> in["input"][1], ind |-> 0, extFailed |-> FALSE]}
      [] m = "selector" ->
            {[val |-> c.r.val, ind |-> c.sel.ind, extFailed |-> c.sel.failed] :
                c \in {d \in SelectorCalls(in["query"][1]) : ~d.r.raised}}
      [] m \in {"vector_retriever", "summary_retriever"} ->
            {[val |-> S, ind |-> 0, extFailed |-> FALSE] : S \in Retrieved(m)}
      [] m = "summarizer" ->
            {[val |-> [response |-> r, query_str |-> in["query_str"][1],
                       source_nodes |-> in["nodes"][1]],
              ind |-> 0, extFailed |-> FALSE] : r \in LLMReplies}

\* Whether a module's call can raise: the selector's when select_choice
\* raises, a retriever's or the synthesizer's when its service fails.
Raises(m, in) ==
    CASE m = "input" -> FALSE
      [] m = "selector" -> \E c \in SelectorCalls(in["query"][1]) : c.r.raised
      [] OTHER -> TRUE

NoOutputs ==
    [m \in SeqToSet(Modules) \cup
           {"router_c", "vector_query_engine", "summary_qrewrite_prompt", "llm",
            "summary_query_engine"} |-> <<>>]

(***************************************************************************)
(* The conditional-link pipeline's run: response = qp.run(input=q).        *)
(***************************************************************************)
LinksRunStart(q) ==
    /\ notebook = "routing"
    /\ qp = "links"
    /\ status \in {"idle", "done"}
    /\ runs < MaxRuns
    /\ runs' = runs + 1
    /\ status' = "running"
    /\ query' = q
    /\ queue' = TopoOrder
    /\ moduleInputs' = [m \in SeqToSet(Modules) |->
                           IF m = "input" THEN [NoInputs EXCEPT !["input"] = <<q>>]
                           ELSE NoInputs]
    /\ trace' = <<>>
    /\ outputs' = NoOutputs
    /\ picked' = <<>>
    /\ result' = <<>>
    /\ extFailure' = <<>>
    /\ UNCHANGED <<slackVars, routerRun>>
    /\ UNCHANGED <<notebook, qp, numNodes, executing, suspended, carry>>

\* The engine takes the next module off the queue and calls it on the inputs
\* delivered to it; a module that lacks an input is refused (a ValueError).
LinksModuleStart ==
    /\ qp = "links"
    /\ status = "running"
    /\ queue # <<>>
    /\ CanStart
    /\ LET m == Head(queue) IN
       IF HasInputs(m, moduleInputs)
       THEN /\ executing' = executing \cup {m}
            /\ trace' = Append(trace, [module |-> m, input |-> moduleInputs[m]])
            /\ queue' = Tail(queue)
            /\ status' = status
       ELSE /\ status' = "failed"
            /\ UNCHANGED <<executing, trace, queue>>
    /\ UNCHANGED <<slackVars, routerRun>>
    /\ UNCHANGED <<notebook, qp, numNodes, runs, query, moduleInputs, suspended,
                   outputs, carry, picked, result, extFailure>>

\* The called module returns; the engine hands its output along its links.
LinksModuleReturn(m) ==
    /\ qp = "links"
    /\ status = "running"
    /\ m \in executing
    /\ \E o \in Returns(m, moduleInputs[m]) :
         LET p == ProcessLinks(1, m, o.val, moduleInputs, queue) IN
         /\ executing' = executing \ {m}
         /\ outputs' = [outputs EXCEPT ![m] = <<o.val>>]
         /\ moduleInputs' = p.inputs
         /\ queue' = p.queue
         /\ picked' = IF m = "selector" THEN <<o.ind>> ELSE picked
         /\ extFailure' = IF o.extFailed THEN <<m>> ELSE extFailure
         /\ result' = IF m \in LeafKeys THEN <<o.val>> ELSE result
    /\ UNCHANGED <<slackVars, routerRun>>
    /\ UNCHANGED <<notebook, qp, numNodes, runs, status, query, suspended,
                   trace, carry>>

\* The called module raises; nothing catches it, the run ends with it.
LinksModuleRaise(m) ==
    /\ qp = "links"
    /\ status = "running"
    /\ m \in executing
    /\ Raises(m, moduleInputs[m])
    /\ executing' = executing \ {m}
    /\ status' = "failed"
    /\ extFailure' = <<m>>
    /\ UNCHANGED <<slackVars, routerRun>>
    /\ UNCHANGED <<notebook, qp, numNodes, runs, query, queue, moduleInputs,
                   suspended, trace, outputs, carry, picked, result>>

\* The queue is empty: qp.run returns the leaf module's output.
LinksRunReturn ==
    /\ qp = "links"
    /\ status = "running"
    /\ queue = <<>>
    /\ executing = {}
    /\ status' = IF Len(result) = 1 THEN "done" ELSE "failed"
    /\ UNCHANGED <<slackVars, routerRun>>
    /\ UNCHANGED <<notebook, qp, numNodes, runs, query, queue, moduleInputs,
                   executing, suspended, trace, outputs, carry, picked, result,
                   extFailure>>

(***************************************************************************)
(* The RouterComponent pipeline: two sub-pipelines joined by a router.     *)
(***************************************************************************)
vector_chain_summary_engine == <<"summary_query_engine">>

vector_chain == <<"vector_query_engine">>

summary_chain_llm_first == <<"llm", "summary_qrewrite_prompt", "summary_query_engine">>

summary_chain == <<"summary_qrewrite_prompt", "llm", "summary_query_engine">>

components_swapped == <<summary_chain, vector_chain>>

components == <<vector_chain, summary_chain>>

\* The top-level pipeline: a chain of the router alone.
router_qp_chain == <<"router_c">>

\* The values a module of a chain can return on the value handed to it: a
\* prompt template formats it, the language model and the query engines
\* answer it.
ChainReturns(m, in) ==
    CASE m = "summary_qrewrite_prompt" ->
            {[template |-> "summary_qrewrite_str", query_str |-> in]}
      [] m = "llm" -> LLMReplies
      [] m = "vector_query_engine" ->
            {[response |-> r, engine |-> "vector", input |-> in] : r \in LLMReplies}
      [] m = "summary_query_engine" ->
            {[response |-> r, engine |-> "summary", input |-> in] : r \in LLMReplies}

\* Formatting a prompt calls no service; the other modules' calls can fail.
ChainRaises(m) == m # "summary_qrewrite_prompt"

\* response = qp.run(q)
RouterRunStart(q) ==
    /\ notebook = "routing"
    /\ qp = "router"
    /\ status \in {"idle", "done"}
    /\ runs < MaxRuns
    /\ runs' = runs + 1
    /\ status' = "running"
    /\ query' = q
    /\ queue' = router_qp_chain
    /\ carry' = q
    /\ trace' = <<>>
    /\ outputs' = NoOutputs
    /\ picked' = <<>>
    /\ result' = <<>>
    /\ extFailure' = <<>>
    /\ UNCHANGED <<slackVars, routerRun>>
    /\ UNCHANGED <<notebook, qp, numNodes, moduleInputs, executing, suspended>>

\* A chain calls its next module on the value the module before it returned.
ChainModuleStart ==
    /\ qp = "router"
    /\ status = "running"
    /\ queue # <<>>
    /\ CanStart
    /\ executing' = executing \cup {Head(queue)}
    /\ trace' = Append(trace, [module |-> Head(queue), input |-> carry])
    /\ queue' = Tail(queue)
    /\ UNCHANGED <<slackVars, routerRun>>
    /\ UNCHANGED <<notebook, qp, numNodes, runs, status, query, moduleInputs,
                   suspended, outputs, carry, picked, result, extFailure>>

\* The router asks the selector to pick one of the choices and calls the
\* component at the picked position on its own input.
RouterSelect(sel) ==
    /\ qp = "router"
    /\ status = "running"
    /\ "router_c" \in executing
    /\ ~sel.failed
    /\ picked' = <<sel.ind>>
    /\ executing' = executing \ {"router_c"}
    /\ suspended' = suspended \cup {"router_c"}
    /\ queue' = components[sel.ind + 1]
    /\ UNCHANGED <<slackVars, routerRun>>
    /\ UNCHANGED <<notebook, qp, numNodes, runs, status, query, moduleInputs,
                   trace, outputs, carry, result, extFailure>>

\* The selector's language-model call fails: the router's call raises.
RouterSelectRaise(sel) ==
    /\ qp = "router"
    /\ status = "running"
    /\ "router_c" \in executing
    /\ sel.failed
    /\ executing' = executing \ {"router_c"}
    /\ status' = "failed"
    /\ extFailure' = <<"router_c">>
    /\ UNCHANGED <<slackVars, routerRun>>
    /\ UNCHANGED <<notebook, qp, numNodes, runs, query, queue, moduleInputs,
                   suspended, trace, outputs, carry, picked, result>>

ChainModuleReturn(m) ==
    /\ qp = "router"
    /\ status = "running"
    /\ m \in executing
    /\ m # "router_c"
    /\ \E v \in ChainReturns(m, carry) :
         /\ carry' = v
         /\ outputs' = [outputs EXCEPT ![m] = <<v>>]
    /\ executing' = executing \ {m}
    /\ UNCHANGED <<slackVars, routerRun>>
    /\ UNCHANGED <<notebook, qp, numNodes, runs, status, query, queue,
                   moduleInputs, suspended, trace, picked, result, extFailure>>

ChainModuleRaise(m) ==
    /\ qp = "router"
    /\ status = "running"
    /\ m \in executing
    /\ m # "router_c"
    /\ ChainRaises(m)
    /\ executing' = executing \ {m}
    /\ suspended' = {}
    /\ status' = "failed"
    /\ extFailure' = <<m>>
    /\ UNCHANGED <<slackVars, routerRun>>
    /\ UNCHANGED <<notebook, qp, numNodes, runs, query, queue, moduleInputs,
                   trace, outputs, carry, picked, result>>

\* The picked component's chain has run: its result is the router's.
RouterReturn ==
    /\ qp = "router"
    /\ status = "running"
    /\ "router_c" \in suspended
    /\ queue = <<>>
    /\ executing = {}
    /\ suspended' = suspended \ {"router_c"}
    /\ outputs' = [outputs EXCEPT !["router_c"] = <<carry>>]
    /\ UNCHANGED <<slackVars, routerRun>>
    /\ UNCHANGED <<notebook, qp, numNodes, runs, status, query, queue,
                   moduleInputs, executing, trace, carry, picked, result,
                   extFailure>>

\* The top-level chain has run: qp.run returns its last module's output.
RouterRunReturn ==
    /\ qp = "router"
    /\ status = "running"
    /\ queue = <<>>
    /\ executing = {}
    /\ suspended = {}
    /\ result' = <<carry>>
    /\ status' = "done"
    /\ routerRun' = <<[query |-> query, ind |-> picked[1],
                       vector |-> \A i \in 1..Len(vector_chain) :
                                     \E j \in 1..Len(trace) : trace[j].module = vector_chain[i],
                       summary |-> \A i \in 1..Len(summary_chain) :
                                      \E j \in 1..Len(trace) : trace[j].module = summary_chain[i]]>>
    /\ UNCHANGED slackVars
    /\ UNCHANGED <<notebook, qp, numNodes, runs, query, queue, moduleInputs,
                   executing, suspended, trace, outputs, carry, picked,
                   extFailure>>

\* The cells that rebind qp to the conditional-link pipeline.
DefineConditionalPipeline ==
    /\ notebook = "routing"
    /\ qp = "router"
    /\ status \in {"idle", "done"}
    /\ qp' = "links"
    /\ runs' = 0
    /\ status' = "idle"
    /\ query' = ""
    /\ queue' = <<>>
    /\ trace' = <<>>
    /\ outputs' = NoOutputs
    /\ carry' = ""
    /\ picked' = <<>>
    /\ result' = <<>>
    /\ extFailure' = <<>>
    /\ UNCHANGED <<slackVars, routerRun>>
    /\ UNCHANGED <<notebook, numNodes, moduleInputs, executing, suspended>>

ChainModules == SeqToSet(vector_chain) \cup SeqToSet(summary_chain)

(***************************************************************************)
(* SlackDemo.ipynb: the cells, executed in order by the kernel.            *)
(***************************************************************************)
SlackCells_query_first ==
    <<"credentials", "imports", "load_data", "query", "from_documents", "display">>

SlackCells ==
    <<"credentials", "imports", "load_data", "from_documents", "query", "display">>

\* os.environ["SLACK_BOT_TOKEN"] = "xoxb-"
ConfiguredToken == "xoxb-"

\* slack_token = os.getenv("SLACK_BOT_TOKEN")
slack_token == env

channel_ids == <<"<channel_id>">>

query_text == "<query_text>"

\* What the reader can return for the channels: one document per channel
\* id, holding the channel's message history.
Fetches(chans) ==
    {[i \in 1..Len(chans) |-> [channel |-> chans[i], text |-> "messages " \o str(n)]] :
        n \in 0..MaxMessages}

\* index = SummaryIndex.from_documents(documents)
IndexDocuments == documents[1]

\* The names a cell reads must be bound, or it raises a NameError.
CellBound(c) ==
    CASE c = "load_data" -> TRUE
      [] c = "from_documents" -> Len(documents) = 1
      [] c = "query" -> Len(index) = 1
      [] c = "display" -> Len(response) = 1
      [] OTHER -> TRUE

\* The cells that call an external service: the Slack API, the language model.
CellExternal(c) == c \in {"load_data", "query"}

\* The kernel starts the next cell when the cell before it has returned.
CellStart ==
    /\ notebook = "SlackDemo"
    /\ status \in {"idle", "running"}
    /\ cell <= Len(SlackCells)
    /\ CanStart
    /\ executing' = executing \cup {SlackCells[cell]}
    /\ trace' = Append(trace, [module |-> SlackCells[cell], input |-> ""])
    /\ cell' = cell + 1
    /\ status' = "running"
    /\ UNCHANGED <<notebook, extFailure, pipelineVars, env, fetched, documents,
                   index, response, displayed>>

CellStatusAfter == IF cell > Len(SlackCells) THEN "done" ELSE "running"

Credentials ==
    /\ notebook = "SlackDemo"
    /\ "credentials" \in executing
    /\ env' = <<ConfiguredToken>>
    /\ executing' = executing \ {"credentials"}
    /\ status' = CellStatusAfter
    /\ UNCHANGED <<notebook, trace, extFailure, pipelineVars, cell, fetched,
                   documents, index, response, displayed>>

Imports ==
    /\ notebook = "SlackDemo"
    /\ "imports" \in executing
    /\ executing' = executing \ {"imports"}
    /\ status' = CellStatusAfter
    /\ UNCHANGED <<notebook, trace, extFailure, pipelineVars, slackVars>>

\* documents = SlackReader(slack_token=slack_token).load_data(channel_ids=channel_ids)
LoadData ==
    /\ notebook = "SlackDemo"
    /\ "load_data" \in executing
    /\ Len(slack_token) = 1
    /\ \E docs \in Fetches(channel_ids) :
         /\ fetched' = <<[token |-> slack_token[1], channels |-> channel_ids,
                          docs |-> docs]>>
         /\ documents' = <<docs>>
    /\ executing' = executing \ {"load_data"}
    /\ status' = CellStatusAfter
    /\ UNCHANGED <<notebook, trace, extFailure, pipelineVars, cell, env, index,
                   response, displayed>>

\* index = SummaryIndex.from_documents(documents)
FromDocuments ==
    /\ notebook = "SlackDemo"
    /\ "from_documents" \in executing
    /\ CellBound("from_documents")
    /\ index' = <<[kind |-> "SummaryIndex", docs |-> IndexDocuments]>>
    /\ executing' = executing \ {"from_documents"}
    /\ status' = CellStatusAfter
    /\ UNCHANGED <<notebook, trace, extFailure, pipelineVars, cell, env, fetched,
                   documents, response, displayed>>

\* response = index.as_query_engine().query("<query_text>")
Query ==
    /\ notebook = "SlackDemo"
    /\ "query" \in executing
    /\ CellBound("query")
    /\ \E r \in LLMReplies :
         response' = <<[response |-> r, query |-> query_text, index |-> index[1]]>>
    /\ executing' = executing \ {"query"}
    /\ status' = CellStatusAfter
    /\ UNCHANGED <<notebook, trace, extFailure, pipelineVars, cell, env, fetched,
                   documents, index, displayed>>

\* display(Markdown(f"<b>{response}</b>"))
Display ==
    /\ notebook = "SlackDemo"
    /\ "display" \in executing
    /\ CellBound("display")
    /\ displayed' = <<"<b>" \o response[1].response \o "</b>">>
    /\ executing' = executing \ {"display"}
    /\ status' = CellStatusAfter
    /\ UNCHANGED <<notebook, trace, extFailure, pipelineVars, cell, env, fetched,
                   documents, index, response>>

\* The cell raises: its external call failed, the reader got no token, or a
\* name it reads is unbound.  The kernel stops at the first cell that raises.
CellRaise(c) ==
    /\ notebook = "SlackDemo"
    /\ c \in executing
    /\ \/ /\ CellExternal(c)
          /\ CellBound(c)
          /\ extFailure' = <<c>>
       \/ /\ \/ ~CellBound(c)
             \/ c = "load_data" /\ Len(slack_token) = 0
          /\ extFailure' = extFailure
    /\ executing' = executing \ {c}
    /\ status' = "failed"
    /\ UNCHANGED <<notebook, trace, pipelineVars, slackVars>>

Init ==
    /\ \/ /\ notebook = "routing"
          /\ qp = "router"
          /\ numNodes \in NodeCounts
       \/ /\ notebook = "SlackDemo"
          /\ qp = "none"
          /\ numNodes = 0
    /\ runs = 0
    /\ status = "idle"
    /\ query = ""
    /\ queue = <<>>
    /\ moduleInputs = [m \in SeqToSet(Modules) |-> NoInputs]
    /\ executing = {}
    /\ suspended = {}
    /\ trace = <<>>
    /\ outputs = NoOutputs
    /\ carry = ""
    /\ picked = <<>>
    /\ result = <<>>
    /\ extFailure = <<>>
    /\ routerRun = <<>>
    /\ cell = 1
    /\ env = <<>>
    /\ fetched = <<>>
    /\ documents = <<>>
    /\ index = <<>>
    /\ response = <<>>
    /\ displayed = <<>>

Next ==
    \/ \E q \in Queries : LinksRunStart(q)
    \/ LinksModuleStart
    \/ \E m \in SeqToSet(Modules) : LinksModuleReturn(m)
    \/ \E m \in SeqToSet(Modules) : LinksModuleRaise(m)
    \/ LinksRunReturn
    \/ \E q \in Queries : RouterRunStart(q)
    \/ ChainModuleStart
    \/ \E sel \in SelectorOutcomes : RouterSelect(sel)
    \/ \E sel \in SelectorOutcomes : RouterSelectRaise(sel)
    \/ \E m \in ChainModules : ChainModuleReturn(m)
    \/ \E m \in ChainModules : ChainModuleRaise(m)
    \/ RouterReturn
    \/ RouterRunReturn
    \/ DefineConditionalPipeline
    \/ CellStart
    \/ Credentials
    \/ Imports
    \/ LoadData
    \/ FromDocuments
    \/ Query
    \/ Display
    \/ \E c \in SeqToSet(SlackCells) : CellRaise(c)

Spec == Init /\ [][Next]_vars

\* The run loop goes on to its next step, and a call that was made comes
\* back: it returns or it raises.
FairSpec ==
    /\ Spec
    /\ WF_vars(LinksModuleStart)
    /\ WF_vars(\E m \in SeqToSet(Modules) : LinksModuleReturn(m) \/ LinksModuleRaise(m))
    /\ WF_vars(LinksRunReturn)

(***************************************************************************)
(* Vocabulary of the properties.                                           *)
(***************************************************************************)
TraceModules == [i \in 1..Len(trace) |-> trace[i].module]

Ran(m) == \E i \in 1..Len(trace) : trace[i].module = m

IsPrefix(s, t) == Len(s) <= Len(t) /\ \A i \in 1..Len(s) : s[i] = t[i]

Ended == status \in {"done", "failed"}

SelectorReturned == Len(outputs["selector"]) = 1

SelectedIndex == outputs["selector"][1].index

\* The retriever the selector's output selects.
SelectedRetriever == IF SelectedIndex = "0" THEN "vector_retriever" ELSE "summary_retriever"

\* The call made of module m in this run.
CallOf(m) == trace[CHOOSE i \in 1..Len(trace) : trace[i].module = m]

\* The calls a sub-pipeline of the router made, in order.
SubTrace == SelectSeq(TraceModules, LAMBDA m : m # "router_c")

(***************************************************************************)
(* C1: in a run of the conditional-link pipeline the two retrievers never  *)
(* both run; a retriever runs only when the selector's output meets its    *)
(* link's condition (vector_retriever on index "0", summary_retriever on   *)
(* index "1"); and once the selector has returned, the run does not end    *)
(* without the retriever of the selected index having been run.            *)
(***************************************************************************)
C1_RoutesToExactlyOneBranch ==
    qp = "links" =>
        /\ ~(Ran("vector_retriever") /\ Ran("summary_retriever"))
        /\ Ran("vector_retriever") => SelectorReturned /\ SelectedIndex = "0"
        /\ Ran("summary_retriever") => SelectorReturned /\ SelectedIndex = "1"
        /\ (SelectorReturned /\ Ended /\ SelectedIndex = "0") => Ran("vector_retriever")
        /\ (SelectorReturned /\ Ended /\ SelectedIndex = "1") => Ran("summary_retriever")
        /\ status = "done" => SelectorReturned /\ SelectedIndex \in {"0", "1"}

C1_Witness ==
    /\ qp = "links"
    /\ status = "done"
    /\ SelectedIndex = "1"
    /\ Ran("summary_retriever")
    /\ ~Ran("vector_retriever")

(***************************************************************************)
(* C2: in a run of the RouterComponent pipeline a sub-pipeline's module    *)
(* runs only after the selector has picked, and only a module of the       *)
(* component at the picked position (0: the vector chain, 1: the summary   *)
(* chain); the router returns what the picked component returned, and a    *)
(* finished run returns the router's result.                               *)
(***************************************************************************)
C2_RouterCallsPickedComponent ==
    qp = "router" =>
        /\ SubTrace # <<>> => Len(picked) = 1
        /\ picked = <<0>> => \A i \in 1..Len(SubTrace) : SubTrace[i] = "vector_query_engine"
        /\ picked = <<1>> => \A i \in 1..Len(SubTrace) :
               SubTrace[i] \in {"summary_qrewrite_prompt", "llm", "summary_query_engine"}
        /\ (Len(outputs["router_c"]) = 1 /\ picked = <<0>>) =>
               /\ Len(outputs["vector_query_engine"]) = 1
               /\ outputs["router_c"] = outputs["vector_query_engine"]
        /\ (Len(outputs["router_c"]) = 1 /\ picked = <<1>>) =>
               /\ Len(outputs["summary_query_engine"]) = 1
               /\ outputs["router_c"] = outputs["summary_query_engine"]
        /\ status = "done" =>
               /\ Len(picked) = 1
               /\ Len(outputs["router_c"]) = 1
               /\ result = outputs["router_c"]

C2_Witness ==
    /\ qp = "router"
    /\ status = "done"
    /\ picked = <<1>>
    /\ Ran("summary_query_engine")
    /\ ~Ran("vector_query_engine")

(***************************************************************************)
(* C3: a run of the conditional-link pipeline calls input, then selector,  *)
(* then the selected retriever, then summarizer, each once: no retriever   *)
(* is called before the selector has returned, the summarizer is called    *)
(* after the selected retriever has returned, and a finished run has made  *)
(* exactly these four calls and returns the summarizer's output.           *)
(***************************************************************************)
C3_ModuleOrder ==
    qp = "links" =>
        /\ ~SelectorReturned => IsPrefix(TraceModules, <<"input", "selector">>)
        /\ SelectorReturned =>
               /\ IsPrefix(<<"input", "selector">>, TraceModules)
               /\ IsPrefix(TraceModules,
                           <<"input", "selector", SelectedRetriever, "summarizer">>)
               /\ Ran("summarizer") => Len(outputs[SelectedRetriever]) = 1
        /\ status = "done" =>
               /\ Len(trace) = 4
               /\ Len(result) = 1
               /\ result = outputs["summarizer"]

C3_Witness ==
    /\ qp = "links"
    /\ status = "done"
    /\ TraceModules = <<"input", "selector", "vector_retriever", "summarizer">>

(***************************************************************************)
(* C4: SlackDemo runs its cells in the order credentials, imports,         *)
(* load_data, from_documents, query, display.  The reader is called with   *)
(* the configured bot token and the given channel ids; documents is what   *)
(* the reader returned; the index is built from exactly those documents;   *)
(* the response is the answer of a query against that index; what is       *)
(* displayed is that response.  The query cell runs only once the index    *)
(* exists, the index cell only once the fetch has returned.                *)
(***************************************************************************)
C4_SlackStepsInOrder ==
    notebook = "SlackDemo" =>
        /\ IsPrefix(TraceModules,
               <<"credentials", "imports", "load_data", "from_documents", "query", "display">>)
        /\ Ran("load_data") => env = <<"xoxb-">>
        /\ Len(fetched) = 1 =>
               /\ fetched[1].token = "xoxb-"
               /\ fetched[1].channels = <<"<channel_id>">>
        /\ Len(documents) = 1 => Len(fetched) = 1 /\ documents[1] = fetched[1].docs
        /\ Ran("from_documents") => Len(fetched) = 1
        /\ Len(index) = 1 => Len(fetched) = 1 /\ index[1].docs = fetched[1].docs
        /\ Ran("query") => Len(index) = 1
        /\ Len(response) = 1 => Len(index) = 1 /\ response[1].index = index[1]
        /\ Ran("display") => Len(response) = 1
        /\ Len(displayed) = 1 =>
               /\ Len(response) = 1
               /\ displayed[1] = "<b>" \o response[1].response \o "</b>"
        /\ status = "done" => Len(displayed) = 1

C4_Witness ==
    /\ notebook = "SlackDemo"
    /\ status = "done"
    /\ Len(displayed) = 1
    /\ index[1].docs = fetched[1].docs

C6_FailurePropagates ==
    /\ \A i, j \in 1..Len(trace) : trace[i].module = trace[j].module => i = j
    /\ Len(extFailure) = 1 =>
         /\ status = "failed"
         /\ executing = {}
         /\ trace # <<>>
         /\ trace[Len(trace)].module = extFailure[1]
         /\ Len(result) = 0
         /\ Len(displayed) = 0
         /\ qp = "links" => ~(Ran("vector_retriever") /\ Ran("summary_retriever"))
         /\ qp = "router" => ~(Ran("vector_query_engine") /\ Ran("summary_query_engine"))
         /\ extFailure = <<"load_data">> =>
                Len(documents) = 0 /\ Len(index) = 0 /\ Len(response) = 0
         /\ extFailure = <<"query">> => Len(response) = 0
    /\ status = "failed" => Len(result) = 0 /\ Len(displayed) = 0

C6_Witness ==
    /\ qp = "links"
    /\ extFailure = <<"vector_retriever">>
    /\ status = "failed"

(***************************************************************************)
(* C7: what select_choice returns on a query is a dictionary with exactly  *)
(* the keys "query" and "index"; "query" is the query it was called with   *)
(* and "index" the decimal string of the index the selector picked.        *)
(***************************************************************************)
C7_SelectChoiceResult ==
    (qp = "links" /\ SelectorReturned) =>
        LET out == outputs["selector"][1] IN
        /\ DOMAIN out = {"query", "index"}
        /\ out.query = CallOf("selector").input["query"][1]
        /\ Len(picked) = 1
        /\ picked[1] = 0 => out.index = "0"
        /\ picked[1] = 1 => out.index = "1"
        /\ picked[1] \in {0, 1}

C7_Witness ==
    /\ qp = "links"
    /\ SelectorReturned
    /\ picked = <<1>>
    /\ outputs["selector"][1] = [query |-> "query 2", index |-> "1"]

(***************************************************************************)
(* C8: in the conditional-link pipeline the selector, the retriever that   *)
(* is run and the summarizer are all called on the string given to qp.run: *)
(* the retriever's input and the summarizer's query_str are that string,   *)
(* whichever branch was selected.                                          *)
(***************************************************************************)
C8_QueryUnaltered ==
    qp = "links" =>
        \A i \in 1..Len(trace) :
            /\ trace[i].module = "selector" => trace[i].input["query"] = <<query>>
            /\ trace[i].module \in {"vector_retriever", "summary_retriever"} =>
                   trace[i].input["input"] = <<query>>
            /\ trace[i].module = "summarizer" => trace[i].input["query_str"] = <<query>>

C8_Witness ==
    /\ qp = "links"
    /\ query = "query 2"
    /\ Ran("vector_retriever")
    /\ Ran("summarizer")

(***************************************************************************)
(* C9: the source nodes of the conditional-link pipeline's response are    *)
(* the nodes the selected retriever returned: at most 2 when the vector    *)
(* retriever was selected, exactly 2 when the index holds at least 2       *)
(* nodes; every node of the summary index when the summary retriever was   *)
(* selected, 21 when the index holds the example document's 21 nodes.      *)
(***************************************************************************)
C9_SourceNodeCount ==
    (qp = "links" /\ status = "done") =>
        LET src == result[1].source_nodes IN
        /\ picked = <<0>> =>
               /\ Cardinality(src) <= 2
               /\ numNodes >= 2 => Cardinality(src) = 2
               /\ src \subseteq 1..numNodes
        /\ picked = <<1>> =>
               /\ src = 1..numNodes
               /\ numNodes = 21 => Cardinality(src) = 21

C9_Witness ==
    /\ qp = "links"
    /\ status = "done"
    /\ picked = <<0>>
    /\ numNodes = 21
    /\ Cardinality(result[1].source_nodes) = 2

(***************************************************************************)
(* C10: when the router selects component 1 the summary chain calls the    *)
(* question-rewrite prompt on the original query, then the language model  *)
(* on the prompt's output, then the summary query engine on the language   *)
(* model's output, and a finished run has made all three calls; when it    *)
(* selects component 0 none of the three is called.                        *)
(***************************************************************************)
C10_SummaryChainOrder ==
    qp = "router" =>
        /\ picked = <<0>> =>
               /\ ~Ran("summary_qrewrite_prompt")
               /\ ~Ran("llm")
               /\ ~Ran("summary_query_engine")
        /\ picked = <<1>> =>
               /\ IsPrefix(SubTrace,
                      <<"summary_qrewrite_prompt", "llm", "summary_query_engine">>)
               /\ Ran("summary_qrewrite_prompt") =>
                      CallOf("summary_qrewrite_prompt").input = query
               /\ Ran("llm") =>
                      /\ Len(outputs["summary_qrewrite_prompt"]) = 1
                      /\ CallOf("llm").input = outputs["summary_qrewrite_prompt"][1]
               /\ Ran("summary_query_engine") =>
                      /\ Len(outputs["llm"]) = 1
                      /\ CallOf("summary_query_engine").input = outputs["llm"][1]
               /\ status = "done" => Len(SubTrace) = 3

C10_Witness ==
    /\ qp = "router"
    /\ status = "done"
    /\ picked = <<1>>
    /\ SubTrace = <<"summary_qrewrite_prompt", "llm", "summary_query_engine">>

(***************************************************************************)
(* C11: in the conditional-link pipeline the summarizer is called only     *)
(* with both of its inputs: query_str, which is what the input module      *)
(* returned, and nodes, which is what a retriever returned.  When it is    *)
(* called exactly one of the two retrievers has run, and nodes is that     *)
(* retriever's output; it is never called when no retriever has run.       *)
(***************************************************************************)
C11_SummarizerInputs ==
    (qp = "links" /\ Ran("summarizer")) =>
        LET in == CallOf("summarizer").input IN
        /\ Len(outputs["input"]) = 1
        /\ in["query_str"] = outputs["input"]
        /\ Len(in["nodes"]) = 1
        /\ Ran("vector_retriever") # Ran("summary_retriever")
        /\ Ran("vector_retriever") =>
               /\ Len(outputs["vector_retriever"]) = 1
               /\ in["nodes"] = outputs["vector_retriever"]
        /\ Ran("summary_retriever") =>
               /\ Len(outputs["summary_retriever"]) = 1
               /\ in["nodes"] = outputs["summary_retriever"]

C11_Witness ==
    /\ qp = "links"
    /\ Ran("summarizer")
    /\ Ran("summary_retriever")
    /\ numNodes = 3
    /\ CallOf("summarizer").input["nodes"] = <<{1, 2, 3}>>

(***************************************************************************)
(* C12: every run of the conditional-link pipeline comes to an end with a  *)
(* response unless a module's call raised: whichever index the selector    *)
(* picks, a started run eventually is done, a finished run has called the  *)
(* summarizer and returns its output, and no module is called twice in a   *)
(* run.  (A run that stopped with the summarizer still waiting for nodes   *)
(* would be neither done nor failed by a call.)                            *)
(***************************************************************************)
C12_RunTerminates ==
    /\ [](qp = "links" =>
            \A i, j \in 1..Len(trace) : trace[i].module = trace[j].module => i = j)
    /\ [](qp = "links" /\ status = "done" =>
            /\ Ran("summarizer")
            /\ Len(result) = 1
            /\ result = outputs["summarizer"])
    /\ (qp = "links" /\ status = "running") ~> (status = "done" \/ Len(extFailure) = 1)

C12_Witness ==
    /\ qp = "links"
    /\ status = "done"
    /\ runs = 2
    /\ picked = <<0>>
    /\ Len(result) = 1
    /\ Len(extFailure) = 0

(***************************************************************************)
(* C13: the two pipelines route alike.  When the conditional-link          *)
(* pipeline is run on the query of the router pipeline's last finished run *)
(* and the selector picks the same index, it runs vector_retriever exactly *)
(* when that run ran the vector sub-pipeline, and summary_retriever        *)
(* exactly when it ran the summary sub-pipeline.                           *)
(***************************************************************************)
C13_SameRoutingDecision ==
    (/\ qp = "links"
     /\ Len(routerRun) = 1
     /\ SelectorReturned
     /\ query = routerRun[1].query
     /\ picked = <<routerRun[1].ind>>) =>
        /\ Ran("vector_retriever") => routerRun[1].vector
        /\ Ran("summary_retriever") => routerRun[1].summary
        /\ Ended =>
               /\ routerRun[1].vector <=> Ran("vector_retriever")
               /\ routerRun[1].summary <=> Ran("summary_retriever")
               /\ routerRun[1].vector # routerRun[1].summary

C13_Witness ==
    /\ qp = "links"
    /\ status = "done"
    /\ Len(routerRun) = 1
    /\ query = routerRun[1].query
    /\ picked = <<1>>
    /\ routerRun[1].ind = 1
    /\ routerRun[1].summary
    /\ Ran("summary_retriever")

====
